---- MODULE Spec2Model ----
(***************************************************************************)
(* faf-replay-cli (src/src/main.rs): locate a replay file, turn a legacy   *)
(* ".fafreplay" container into a raw replay in a temporary file, and start *)
(* the game on it.  One run of main() is modelled statement by statement.  *)
(*                                                                         *)
(* Text is a sequence of one-character strings, binary data a sequence of  *)
(* numbers in 0..255.                                                      *)
(***************************************************************************)
EXTENDS Integers, Sequences, FiniteSets, TLC

\* ------------------------------------------------------------------ bounds
\* Longest replay payload that is compressed into the input streams.
MaxPayloadLen == 2

\* ------------------------------------------------------- program constants
\* zipped_qt_data.split_at(4)
HeaderLen == 4
\* launch_game(executable, &raw_replay_path, 12345, wrapper)
ReplayId == 12345

\* ------------------------------------------------------------ text helpers
\* str::ends_with: a literal, case-sensitive comparison of the last characters
EndsWith(s, suffix) ==
    /\ Len(s) >= Len(suffix)
    /\ SubSeq(s, Len(s) - Len(suffix) + 1, Len(s)) = suffix

\* str::contains
Contains(s, part) ==
    \E i \in 1..(Len(s) - Len(part) + 1) : SubSeq(s, i, i + Len(part) - 1) = part

ScfaExt == <<".", "s", "c", "f", "a", "r", "e", "p", "l", "a", "y">>
FafExt == <<".", "f", "a", "f", "r", "e", "p", "l", "a", "y">>

\* ---------------------------------------------------------- get_replay_type
get_replay_type_contains(file_name) ==
    IF Contains(file_name, ScfaExt) THEN "ForgedAlliance"
    ELSE IF Contains(file_name, FafExt) THEN "FafLegacy"
    ELSE "Unknown"

get_replay_type(file_name) ==
    IF EndsWith(file_name, ScfaExt) THEN "ForgedAlliance"
    ELSE IF EndsWith(file_name, FafExt) THEN "FafLegacy"
    ELSE "Unknown"

\* ------------------------------------------------------------------ base64
\* base64::STANDARD: the RFC 4648 alphabet, '=' padding.
B64Alphabet ==
    << "A", "B", "C", "D", "E", "F", "G", "H", "I", "J", "K", "L", "M",
       "N", "O", "P", "Q", "R", "S", "T", "U", "V", "W", "X", "Y", "Z",
       "a", "b", "c", "d", "e", "f", "g", "h", "i", "j", "k", "l", "m",
       "n", "o", "p", "q", "r", "s", "t", "u", "v", "w", "x", "y", "z",
       "0", "1", "2", "3", "4", "5", "6", "7", "8", "9", "+", "/" >>

B64Pad == "="

B64Symbols == {B64Alphabet[i] : i \in DOMAIN B64Alphabet}

B64Char(v) == B64Alphabet[v + 1]

B64Value(c) == (CHOOSE i \in DOMAIN B64Alphabet : B64Alphabet[i] = c) - 1

\* The encoder that produces line 2 of a legacy container (the upstream
\* producer; used to build the inputs).
RECURSIVE Base64Encode(_)
Base64Encode(bytes) ==
    IF Len(bytes) = 0 THEN <<>>
    ELSE IF Len(bytes) = 1 THEN
        << B64Char(bytes[1] \div 4), B64Char((bytes[1] % 4) * 16), B64Pad, B64Pad >>
    ELSE IF Len(bytes) = 2 THEN
        << B64Char(bytes[1] \div 4),
           B64Char((bytes[1] % 4) * 16 + bytes[2] \div 16),
           B64Char((bytes[2] % 16) * 4),
           B64Pad >>
    ELSE
        << B64Char(bytes[1] \div 4),
           B64Char((bytes[1] % 4) * 16 + bytes[2] \div 16),
           B64Char((bytes[2] % 16) * 4 + bytes[3] \div 64),
           B64Char(bytes[3] % 64) >>
        \o Base64Encode(SubSeq(bytes, 4, Len(bytes)))

\* The symbols before the first '='.
RECURSIVE B64Data(_)
B64Data(chars) ==
    IF chars = <<>> \/ Head(chars) = B64Pad THEN <<>>
    ELSE <<Head(chars)>> \o B64Data(Tail(chars))

\* Decodes symbols (no padding) whose count is not 1 modulo 4; the bits left
\* over in the last symbol are dropped.
RECURSIVE B64DecodeSymbols(_)
B64DecodeSymbols(syms) ==
    IF Len(syms) = 0 THEN <<>>
    ELSE IF Len(syms) = 2 THEN
        << B64Value(syms[1]) * 4 + B64Value(syms[2]) \div 16 >>
    ELSE IF Len(syms) = 3 THEN
        << B64Value(syms[1]) * 4 + B64Value(syms[2]) \div 16,
           (B64Value(syms[2]) % 16) * 16 + B64Value(syms[3]) \div 4 >>
    ELSE
        << B64Value(syms[1]) * 4 + B64Value(syms[2]) \div 16,
           (B64Value(syms[2]) % 16) * 16 + B64Value(syms[3]) \div 4,
           (B64Value(syms[3]) % 4) * 64 + B64Value(syms[4]) >>
        \o B64DecodeSymbols(SubSeq(syms, 5, Len(syms)))

\* The bits of the last symbol that encode nothing.
B64TrailingBits(syms) ==
    IF Len(syms) % 4 = 2 THEN B64Value(syms[Len(syms)]) % 16
    ELSE IF Len(syms) % 4 = 3 THEN B64Value(syms[Len(syms)]) % 4
    ELSE 0

\* base64::decode_config(s, base64::STANDARD) of the crate versions that have
\* decode_config: every character must be a symbol of the alphabet, '=' may
\* only close the last quad (at most two of them, completing it), trailing
\* padding may be left out, a single dangling symbol is an invalid length and
\* non-zero trailing bits are rejected.
Base64Decode(chars) ==
    LET data == B64Data(chars)
        pad == SubSeq(chars, Len(data) + 1, Len(chars))
        good ==
            /\ \A i \in DOMAIN data : data[i] \in B64Symbols
            /\ \A i \in DOMAIN pad : pad[i] = B64Pad
            /\ Len(data) % 4 # 1
            /\ Len(pad) > 0 => (Len(pad) <= 2 /\ (Len(data) + Len(pad)) % 4 = 0)
            /\ B64TrailingBits(data) = 0
    IN IF good THEN [ok |-> TRUE, bytes |-> B64DecodeSymbols(data)]
       ELSE [ok |-> FALSE, bytes |-> <<>>]

\* -------------------------------------------------------------------- zlib
\* RFC 1950 container around RFC 1951 deflate data.  The streams of this
\* model carry their payload in stored (uncompressed) blocks.
AdlerBase == 65521

RECURSIVE AdlerA(_)
AdlerA(bytes) ==
    IF bytes = <<>> THEN 1
    ELSE (AdlerA(SubSeq(bytes, 1, Len(bytes) - 1)) + bytes[Len(bytes)]) % AdlerBase

RECURSIVE AdlerB(_)
AdlerB(bytes) ==
    IF bytes = <<>> THEN 0
    ELSE (AdlerB(SubSeq(bytes, 1, Len(bytes) - 1)) + AdlerA(bytes)) % AdlerBase

\* The four big-endian bytes of the Adler-32 checksum.
Adler32(bytes) ==
    << AdlerB(bytes) \div 256, AdlerB(bytes) % 256,
       AdlerA(bytes) \div 256, AdlerA(bytes) % 256 >>

\* One stored block: BFINAL/BTYPE byte, LEN, NLEN (little-endian), the data.
StoredBlock(final, data) ==
    << (IF final THEN 1 ELSE 0),
       Len(data) % 256, Len(data) \div 256,
       255 - (Len(data) % 256), 255 - (Len(data) \div 256) >> \o data

ZlibHeader == <<120, 1>>

\* zlib-compress(bytes) of the upstream producer: header, one final stored
\* block, checksum.
ZlibCompress(bytes) == ZlibHeader \o StoredBlock(TRUE, bytes) \o Adler32(bytes)

\* The same payload split over two stored blocks.
ZlibCompressSplit(bytes, k) ==
    ZlibHeader \o StoredBlock(FALSE, SubSeq(bytes, 1, k))
        \o StoredBlock(TRUE, SubSeq(bytes, k + 1, Len(bytes))) \o Adler32(bytes)

\* Inflates the deflate blocks at the front of `data`, `out` being what the
\* earlier blocks gave.  status: "ok" with the rest after the final block,
\* "truncated" when the data ends inside a block, "corrupt" when it cannot
\* be deflate data, "huffman" for a compressed block (not decoded here).
RECURSIVE InflateBlocks(_, _)
InflateBlocks(data, out) ==
    IF Len(data) = 0 THEN [status |-> "truncated", out |-> out, rest |-> <<>>]
    ELSE LET final == data[1] % 2 = 1
             btype == (data[1] \div 2) % 4
         IN IF btype = 3 THEN [status |-> "corrupt", out |-> out, rest |-> <<>>]
            ELSE IF btype # 0 THEN [status |-> "huffman", out |-> out, rest |-> <<>>]
            ELSE IF Len(data) < 5 THEN [status |-> "truncated", out |-> out, rest |-> <<>>]
            ELSE LET len == data[2] + 256 * data[3]
                     nlen == data[4] + 256 * data[5]
                 IN IF len + nlen # 65535
                    THEN [status |-> "corrupt", out |-> out, rest |-> <<>>]
                    ELSE IF Len(data) < 5 + len
                    THEN [status |-> "truncated",
                          out |-> out \o SubSeq(data, 6, Len(data)), rest |-> <<>>]
                    ELSE IF final
                    THEN [status |-> "ok", out |-> out \o SubSeq(data, 6, 5 + len),
                          rest |-> SubSeq(data, 6 + len, Len(data))]
                    ELSE InflateBlocks(SubSeq(data, 6 + len, Len(data)),
                                       out \o SubSeq(data, 6, 5 + len))

\* What a zlib decoder makes of `data`: header check, blocks, checksum.
\* Bytes after the checksum are not looked at.
Inflate(data) ==
    IF Len(data) < 2 THEN [status |-> "truncated", out |-> <<>>]
    ELSE IF \/ data[1] % 16 # 8
            \/ data[1] \div 16 > 7
            \/ (data[1] * 256 + data[2]) % 31 # 0
            \/ (data[2] \div 32) % 2 = 1
    THEN [status |-> "corrupt", out |-> <<>>]
    ELSE LET b == InflateBlocks(SubSeq(data, 3, Len(data)), <<>>)
         IN IF b.status # "ok" THEN [status |-> b.status, out |-> b.out]
            ELSE IF Len(b.rest) < 4 THEN [status |-> "truncated", out |-> b.out]
            ELSE IF SubSeq(b.rest, 1, 4) # Adler32(b.out)
            THEN [status |-> "corrupt", out |-> b.out]
            ELSE [status |-> "ok", out |-> b.out]

\* ------------------------------------------------------------------- lines
LF == "\n"
CR == "\r"

\* Position of the first line feed of `text`, 0 when it has none.
FirstLF(text) ==
    IF \E i \in DOMAIN text : text[i] = LF
    THEN CHOOSE i \in DOMAIN text :
            text[i] = LF /\ \A j \in 1..(i - 1) : text[j] # LF
    ELSE 0

StripCR(line) ==
    IF Len(line) > 0 /\ line[Len(line)] = CR
    THEN SubSeq(line, 1, Len(line) - 1) ELSE line

\* io::Lines::next on the unread text: None at end of file, else the text up
\* to the next line feed without its "\n" or "\r\n", and what is left unread.
NextLine(unread) ==
    IF unread = <<>> THEN [some |-> FALSE, line |-> <<>>, rest |-> <<>>]
    ELSE LET n == FirstLF(unread)
         IN IF n = 0
            THEN [some |-> TRUE, line |-> unread, rest |-> <<>>]
            ELSE [some |-> TRUE, line |-> StripCR(SubSeq(unread, 1, n - 1)),
                  rest |-> SubSeq(unread, n + 1, Len(unread))]

\* ------------------------------------------------------------------ inputs
SeqsUpTo(S, n) == UNION {[1..k -> S] : k \in 0..n}

PayloadBytes == {0, 1, 255}

\* The replay payloads B; the second is the spec's end-to-end example.
Payloads == SeqsUpTo(PayloadBytes, MaxPayloadLen) \cup {<<1, 2, 3, 4, 5>>}

\* The 4-byte prefixes P (the producer's length field).
ZeroPrefix == <<0, 0, 0, 0>>
Prefixes == {ZeroPrefix, <<255, 254, 253, 252>>}

\* base64(P ++ zlib-compress(B))
Encoded(P, B) == Base64Encode(P \o ZlibCompress(B))

\* `bytes` with the byte at position i changed.
Damaged(bytes, i) == [bytes EXCEPT ![i] = (@ + 128) % 256]

Unpadded(chars) == B64Data(chars)

Chars(n, c) == [i \in 1..n |-> c]

GoodStreams ==
    {Encoded(P, B) : P \in Prefixes, B \in Payloads}
        \cup {Base64Encode(ZeroPrefix \o ZlibCompressSplit(B, 1)) :
                B \in {b \in Payloads : Len(b) >= 2}}
        \cup {Unpadded(Encoded(ZeroPrefix, B)) : B \in Payloads}
        \cup {Base64Encode(ZeroPrefix \o ZlibCompress(B) \o <<7>>) : B \in Payloads}

\* Cut anywhere: inside the prefix, the zlib header, the block, the checksum.
TruncatedStreams ==
    UNION {{Base64Encode(SubSeq(ZeroPrefix \o ZlibCompress(B), 1, k)) :
                k \in 0..(HeaderLen + Len(ZlibCompress(B)) - 1)} : B \in Payloads}

DamagedStreams ==
    UNION {{Base64Encode(ZeroPrefix \o Damaged(ZlibCompress(B), i)) :
                i \in 1..Len(ZlibCompress(B))} : B \in Payloads}

BadBase64Streams ==
    { <<"n", "o", "t", "-", "b", "a", "s", "e", "6", "4", "!", "!">>,
      <<"A">>, <<"A", "B">>, <<"A", "A", "=", "A">>, <<"=", "A", "A", "A">>,
      <<"A", "A", "A", "A", "=">>, <<"A", "A", "A", "=", "=">>,
      Chars(7, "A") \o <<" ">>, Chars(9, "A") }

Streams == GoodStreams \cup TruncatedStreams \cup DamagedStreams \cup BadBase64Streams

Meta == <<"{", "}">>

\* Legacy container files: metadata line, stream line, with and without
\* further lines; and files that have fewer than two lines.
TwoLineFile(s) == Meta \o <<LF>> \o s
LongerFile(s) == Meta \o <<CR, LF>> \o s \o <<CR, LF>> \o <<"x", LF>>

ShortFiles ==
    { <<>>, Meta, Meta \o <<LF>>, <<LF>>, Meta \o <<LF, LF>>, <<LF, LF>>,
      Meta \o <<LF, CR, LF>> }

Contents ==
    {TwoLineFile(s) : s \in Streams} \cup {LongerFile(s) : s \in GoodStreams}
        \cup ShortFiles

FewContents == ShortFiles \cup {TwoLineFile(Encoded(ZeroPrefix, <<1, 2, 3, 4, 5>>))}

\* File names, by what follows the stem.
NameTails ==
    { ScfaExt, FafExt, <<>>,
      ScfaExt \o <<"X">>, FafExt \o <<"X">>,
      <<".", "S", "C", "F", "A", "R", "E", "P", "L", "A", "Y">>,
      <<".", "F", "a", "f", "r", "e", "p", "l", "a", "y">>,
      <<"s", "c", "f", "a", "r", "e", "p", "l", "a", "y">>,
      <<".", "f", "a", "f", "r", "e", "p", "l", "a">>,
      ScfaExt \o FafExt, FafExt \o ScfaExt,
      ScfaExt \o <<"/", "r">>, <<".", "t", "x", "t">> }

Names == {stem \o tail : stem \in {<<>>, <<"r">>}, tail \in NameTails}

MainLegacyName == <<"r">> \o FafExt

Inputs == ({MainLegacyName} \X Contents) \cup (Names \X FewContents)

\* The path of the file NamedTempFile::new() creates.
TmpPath == <<"/", "t", "m", "p", "/", ".", "t", "m", "p", "0">>

\* ------------------------------------------------------------------- state
VARIABLES
    replayPath,   \* --local-file
    fileContent,  \* the text of the file at replayPath
    wrapper,      \* whether --wrapper was given
    pc,           \* the statement main() is at
    exit,         \* "running", or how the process ended: "ok", "exit1", "panic"
    replayType,   \* what get_replay_type returned, "none" before the call
    result,       \* the io::Result prepare_replay_file is building
    reader,       \* the text `lines` has not read yet
    stream,       \* base64_replay_stream
    zipped,       \* zipped_qt_data, then zipped_data
    output,       \* output
    tmp,          \* the temporary file: whether it exists, its content
    tmpCount,     \* temporary files created so far
    game,         \* the child process
    events        \* what the run did to the file system and to processes

vars == << replayPath, fileContent, wrapper, pc, exit, replayType, result, reader,
           stream, zipped, output, tmp, tmpCount, game, events >>

NoResult == [tag |-> "none", kind |-> "", msg |-> "", path |-> <<>>]
Err(kind, msg) == [tag |-> "Err", kind |-> kind, msg |-> msg, path |-> <<>>]
AtPath(path) == [tag |-> "AtPath", kind |-> "", msg |-> "", path |-> path]
AtTempFile == [tag |-> "AtTempFile", kind |-> "", msg |-> "", path |-> TmpPath]

UnknownFormatMsg == "Unknown replay format!"
MetadataMissingMsg == "Replay corrupt - replay metadata json is missing"
StreamMissingMsg == "Replay corrupt - binary replay stream is missing"
BadBase64Msg == "Replay corrupt - couldn't decode base64"
\* the messages of the libraries' own errors
CorruptDeflateMsg == "corrupt deflate stream"
InvalidUtf8Msg == "stream did not contain valid UTF-8"
OsErrorMsg == "os error"

OsErrorKinds == {"NotFound", "PermissionDenied", "Other"}

NoGame == [state |-> "none", replay |-> <<>>, program |-> "", first |-> "",
           replayid |-> 0, fileExists |-> FALSE]

Log(e) == events' = Append(events, e)

Init ==
    /\ \E in \in Inputs : replayPath = in[1] /\ fileContent = in[2]
    /\ wrapper = FALSE
    /\ pc = "main"
    /\ exit = "running"
    /\ replayType = "none"
    /\ result = NoResult
    /\ reader = <<>>
    /\ stream = <<>>
    /\ zipped = <<>>
    /\ output = <<>>
    /\ tmp = [exists |-> FALSE, content |-> <<>>]
    /\ tmpCount = 0
    /\ game = NoGame
    /\ events = <<>>

\* Dropping a NamedTempFile deletes its file.
DropTempFile ==
    /\ tmp' = [tmp EXCEPT !.exists = FALSE, !.content = <<>>]
    /\ Log("tmp_delete")

Panic ==
    /\ exit' = "panic"
    /\ pc' = "done"

\* --------------------------------------------------------------- main, CLI
\* build_cli and get_executable_path, get_replay_path, get_wrapper_path:
\* exit(1) at the first path that does not exist.
GetPaths ==
    /\ pc = "main"
    /\ \E exeExists \in BOOLEAN, replayExists \in BOOLEAN,
          wrapperArg \in {"absent", "exists", "missing"} :
            IF exeExists /\ replayExists /\ wrapperArg # "missing"
            THEN /\ wrapper' = (wrapperArg = "exists")
                 /\ pc' = "prepare"
                 /\ exit' = exit
            ELSE /\ wrapper' = wrapper
                 /\ pc' = "done"
                 /\ exit' = "exit1"
    /\ UNCHANGED << replayPath, fileContent, replayType, result, reader, stream,
                    zipped, output, tmp, tmpCount, game, events >>

\* ------------------------------------------------------ prepare_replay_file
PrepareReplayFileOpensFirst ==
    /\ pc = "prepare"
    /\ replayType' = get_replay_type(replayPath)
    /\ Log("open")
    /\ IF replayType' = "Unknown"
       THEN /\ result' = Err("InvalidData", UnknownFormatMsg)
            /\ pc' = "expect"
       ELSE IF replayType' = "ForgedAlliance"
       THEN /\ result' = AtPath(replayPath)
            /\ pc' = "expect"
       ELSE /\ result' = result
            /\ pc' = "open"
    /\ UNCHANGED << replayPath, fileContent, wrapper, exit, reader, stream, zipped,
                    output, tmp, tmpCount, game >>

\* The match on get_replay_type; the FafLegacy arm goes on in
\* extract_faf_legacy_replay.
PrepareReplayFile ==
    /\ pc = "prepare"
    /\ replayType' = get_replay_type(replayPath)
    /\ IF replayType' = "Unknown"
       THEN /\ result' = Err("InvalidData", UnknownFormatMsg)
            /\ pc' = "expect"
       ELSE IF replayType' = "ForgedAlliance"
       THEN /\ result' = AtPath(replayPath)
            /\ pc' = "expect"
       ELSE /\ result' = result
            /\ pc' = "open"
    /\ UNCHANGED << replayPath, fileContent, wrapper, exit, reader, stream, zipped,
                    output, tmp, tmpCount, game, events >>

\* ------------------------------------------------ extract_faf_legacy_replay
\* File::open(file_name)?
OpenFile ==
    /\ pc = "open"
    /\ Log("open")
    /\ \/ /\ reader' = fileContent
          /\ pc' = "read_metadata"
          /\ result' = result
       \/ /\ \E kind \in OsErrorKinds : result' = Err(kind, OsErrorMsg)
          /\ pc' = "expect"
          /\ reader' = reader
    /\ UNCHANGED << replayPath, fileContent, wrapper, exit, replayType, stream,
                    zipped, output, tmp, tmpCount, game >>

\* A line that cannot be read: the read fails, or the bytes are not UTF-8.
ReadFailure ==
    \/ \E kind \in OsErrorKinds : result' = Err(kind, OsErrorMsg)
    \/ result' = Err("InvalidData", InvalidUtf8Msg)

\* let _json_metadata = lines.next().unwrap_or_else(..)?
ReadMetadata ==
    /\ pc = "read_metadata"
    /\ Log("read_line")
    /\ LET next == NextLine(reader)
       IN \/ /\ next.some
             /\ reader' = next.rest
             /\ pc' = "read_stream"
             /\ result' = result
          \/ /\ ~next.some
             /\ result' = Err("InvalidData", MetadataMissingMsg)
             /\ pc' = "expect"
             /\ reader' = reader
          \/ /\ next.some
             /\ ReadFailure
             /\ pc' = "expect"
             /\ reader' = reader
    /\ UNCHANGED << replayPath, fileContent, wrapper, exit, replayType, stream,
                    zipped, output, tmp, tmpCount, game >>

ReadStreamDefaultsToEmpty ==
    /\ pc = "read_stream"
    /\ Log("read_line")
    /\ LET next == NextLine(reader)
       IN /\ reader' = next.rest
          /\ stream' = next.line
          /\ pc' = "base64"
          /\ result' = result
    /\ UNCHANGED << replayPath, fileContent, wrapper, exit, replayType, zipped,
                    output, tmp, tmpCount, game >>

\* let base64_replay_stream = lines.next().unwrap_or_else(..)?
ReadStream ==
    /\ pc = "read_stream"
    /\ Log("read_line")
    /\ LET next == NextLine(reader)
       IN \/ /\ next.some
             /\ reader' = next.rest
             /\ stream' = next.line
             /\ pc' = "base64"
             /\ result' = result
          \/ /\ ~next.some
             /\ result' = Err("InvalidData", StreamMissingMsg)
             /\ pc' = "expect"
             /\ UNCHANGED << reader, stream >>
          \/ /\ next.some
             /\ ReadFailure
             /\ pc' = "expect"
             /\ UNCHANGED << reader, stream >>
    /\ UNCHANGED << replayPath, fileContent, wrapper, exit, replayType, zipped,
                    output, tmp, tmpCount, game >>

\* -------------------------------------- convert_legacy_replay_stream_to_raw
DecodeBase64IgnoresError ==
    /\ pc = "base64"
    /\ Log("base64_decode")
    /\ zipped' = Base64Decode(stream).bytes
    /\ pc' = "split"
    /\ result' = result
    /\ UNCHANGED << replayPath, fileContent, wrapper, exit, replayType, reader,
                    stream, output, tmp, tmpCount, game >>

\* base64::decode_config(base64_stream, base64::STANDARD).map_err(..)?
DecodeBase64 ==
    /\ pc = "base64"
    /\ Log("base64_decode")
    /\ LET decoded == Base64Decode(stream)
       IN IF decoded.ok
          THEN /\ zipped' = decoded.bytes
               /\ pc' = "split"
               /\ result' = result
          ELSE /\ result' = Err("InvalidData", BadBase64Msg)
               /\ pc' = "expect"
               /\ zipped' = zipped
    /\ UNCHANGED << replayPath, fileContent, wrapper, exit, replayType, reader,
                    stream, output, tmp, tmpCount, game >>

StripHeaderKeepsPrefix ==
    /\ pc = "split"
    /\ Log("split_at")
    /\ IF Len(zipped) < HeaderLen
       THEN /\ Panic
            /\ zipped' = zipped
       ELSE /\ zipped' = zipped
            /\ pc' = "tempfile"
            /\ exit' = exit
    /\ UNCHANGED << replayPath, fileContent, wrapper, replayType, result, reader,
                    stream, output, tmp, tmpCount, game >>

\* let (_, zipped_data_slice) = zipped_qt_data.split_at(4): split_at panics
\* when the vector is shorter than 4.
StripHeader ==
    /\ pc = "split"
    /\ Log("split_at")
    /\ IF Len(zipped) < HeaderLen
       THEN /\ Panic
            /\ zipped' = zipped
       ELSE /\ zipped' = SubSeq(zipped, HeaderLen + 1, Len(zipped))
            /\ pc' = "tempfile"
            /\ exit' = exit
    /\ UNCHANGED << replayPath, fileContent, wrapper, replayType, result, reader,
                    stream, output, tmp, tmpCount, game >>

\* tempfile::NamedTempFile::new()?
CreateTempFile ==
    /\ pc = "tempfile"
    /\ \/ /\ tmp' = [exists |-> TRUE, content |-> <<>>]
          /\ tmpCount' = tmpCount + 1
          /\ Log("tmp_create")
          /\ pc' = "inflate"
          /\ result' = result
       \/ /\ \E kind \in OsErrorKinds : result' = Err(kind, OsErrorMsg)
          /\ pc' = "expect"
          /\ UNCHANGED << tmp, tmpCount, events >>
    /\ UNCHANGED << replayPath, fileContent, wrapper, exit, replayType, reader,
                    stream, zipped, output, game >>

\* decoder.read_to_end(&mut output)? when the decoder reports an error: the
\* function returns and temp_replay_file is dropped.
InflateFails ==
    /\ result' = Err("InvalidInput", CorruptDeflateMsg)
    /\ pc' = "expect"
    /\ output' = output
    /\ tmp' = [tmp EXCEPT !.exists = FALSE, !.content = <<>>]
    /\ events' = events \o <<"inflate", "tmp_delete">>

InflateGives(bytes) ==
    /\ output' = bytes
    /\ pc' = "write"
    /\ result' = result
    /\ tmp' = tmp
    /\ Log("inflate")

InflateLeaksTempFile ==
    /\ pc = "inflate"
    /\ LET inflated == Inflate(zipped)
       IN \/ inflated.status = "ok" /\ InflateGives(inflated.out)
          \/ /\ inflated.status \in {"corrupt", "truncated"}
             /\ result' = Err("InvalidInput", CorruptDeflateMsg)
             /\ pc' = "expect"
             /\ output' = output
             /\ tmp' = tmp
             /\ Log("inflate")
          \/ inflated.status = "truncated" /\ InflateGives(inflated.out)
    /\ UNCHANGED << replayPath, fileContent, wrapper, exit, replayType, reader,
                    stream, zipped, tmpCount, game >>

\* ZlibDecoder::new(zipped_data.as_slice()), decoder.read_to_end(&mut output)?
\* A stream that ends early is an error for one decoder backend, and the end
\* of the data for another, which then returns what was inflated so far.
InflateStream ==
    /\ pc = "inflate"
    /\ LET inflated == Inflate(zipped)
       IN \/ inflated.status = "ok" /\ InflateGives(inflated.out)
          \/ inflated.status \in {"corrupt", "truncated"} /\ InflateFails
          \/ inflated.status = "truncated" /\ InflateGives(inflated.out)
    /\ UNCHANGED << replayPath, fileContent, wrapper, exit, replayType, reader,
                    stream, zipped, tmpCount, game >>

\* temp_replay_file.as_file_mut().write_all(&output)?; Ok(temp_replay_file)
WriteOutput ==
    /\ pc = "write"
    /\ \/ /\ tmp' = [tmp EXCEPT !.content = output]
          /\ Log("write")
          /\ result' = AtTempFile
       \/ /\ \E kind \in OsErrorKinds : result' = Err(kind, OsErrorMsg)
          /\ tmp' = [tmp EXCEPT !.exists = FALSE, !.content = <<>>]
          /\ events' = events \o <<"write", "tmp_delete">>
    /\ pc' = "expect"
    /\ UNCHANGED << replayPath, fileContent, wrapper, exit, replayType, reader,
                    stream, zipped, output, tmpCount, game >>

\* -------------------------------------------------------- main, after .expect
\* Unwinding or returning from main drops replay_preparation_result, and with
\* it the NamedTempFile it may hold.
DropResult ==
    IF result.tag = "AtTempFile" /\ tmp.exists
    THEN DropTempFile
    ELSE UNCHANGED << tmp, events >>

ExpectIgnoresError ==
    /\ pc = "expect"
    /\ pc' = "launch"
    /\ UNCHANGED << replayPath, fileContent, wrapper, exit, replayType, result,
                    reader, stream, zipped, output, tmp, tmpCount, game, events >>

ExpectDropsTempFile ==
    /\ pc = "expect"
    /\ IF result.tag = "Err"
       THEN Panic /\ UNCHANGED << tmp, events >>
       ELSE pc' = "launch" /\ exit' = exit /\ DropResult
    /\ UNCHANGED << replayPath, fileContent, wrapper, replayType, result, reader,
                    stream, zipped, output, tmpCount, game >>

\* prepare_replay_file(replay_path).expect("Replay file issues!") and the
\* match that takes the path out of the location.
Expect ==
    /\ pc = "expect"
    /\ IF result.tag = "Err"
       THEN Panic
       ELSE pc' = "launch" /\ exit' = exit
    /\ UNCHANGED << replayPath, fileContent, wrapper, replayType, result, reader,
                    stream, zipped, output, tmp, tmpCount, game, events >>

\* launch_game up to the start of the child in launch_command.output():
\* the wrapper, when given, is the program and gets the executable as its
\* first argument.  A child that cannot be started is a panic.
LaunchGame ==
    /\ pc = "launch"
    /\ \/ /\ game' = [state |-> "running",
                      replay |-> result.path,
                      program |-> IF wrapper THEN "wrapper" ELSE "executable",
                      first |-> IF wrapper THEN "executable" ELSE "/init",
                      replayid |-> ReplayId,
                      fileExists |-> (result.tag = "AtTempFile" => tmp.exists)]
          /\ Log("spawn")
          /\ pc' = "wait"
          /\ UNCHANGED << exit, tmp >>
       \/ /\ Panic
          /\ DropResult
          /\ game' = game
    /\ UNCHANGED << replayPath, fileContent, wrapper, replayType, result, reader,
                    stream, zipped, output, tmpCount >>

\* launch_command.output() returns when the child has exited; its output is
\* copied to stdout and stderr (.unwrap()) and the last line is printed.
GameExits ==
    /\ pc = "wait"
    /\ game' = [game EXCEPT !.state = "exited"]
    /\ \/ /\ pc' = "return"
          /\ Log("game_exit")
          /\ UNCHANGED << exit, tmp >>
       \/ /\ Panic
          /\ IF result.tag = "AtTempFile" /\ tmp.exists
             THEN /\ tmp' = [tmp EXCEPT !.exists = FALSE, !.content = <<>>]
                  /\ events' = events \o <<"game_exit", "tmp_delete">>
             ELSE /\ tmp' = tmp
                  /\ Log("game_exit")
    /\ UNCHANGED << replayPath, fileContent, wrapper, replayType, result, reader,
                    stream, zipped, output, tmpCount >>

\* The end of main.
MainReturns ==
    /\ pc = "return"
    /\ pc' = "done"
    /\ exit' = "ok"
    /\ DropResult
    /\ UNCHANGED << replayPath, fileContent, wrapper, replayType, result, reader,
                    stream, zipped, output, tmpCount, game >>

Next ==
    \/ GetPaths
    \/ PrepareReplayFile
    \/ OpenFile
    \/ ReadMetadata
    \/ ReadStream
    \/ DecodeBase64
    \/ StripHeader
    \/ CreateTempFile
    \/ InflateStream
    \/ WriteOutput
    \/ Expect
    \/ LaunchGame
    \/ GameExits
    \/ MainReturns

Spec == Init /\ [][Next]_vars

\* ======================================================== the properties
Did(e) == \E i \in DOMAIN events : events[i] = e

Count(e) == Cardinality({i \in DOMAIN events : events[i] = e})

\* Every a in the log comes before every b.
Before(a, b) ==
    \A i, j \in DOMAIN events : (events[i] = a /\ events[j] = b) => i < j

\* The error categories of the design: CorruptReplay is an InvalidData error
\* that reports the replay as corrupt, UnsupportedFormat the unknown-format
\* error; an error the operating system or a library raised is an IoError.
IsCorruptReplay(r) ==
    /\ r.tag = "Err"
    /\ r.kind = "InvalidData"
    /\ r.msg \in {MetadataMissingMsg, StreamMissingMsg, BadBase64Msg}

IsUnsupportedFormat(r) ==
    r.tag = "Err" /\ r.kind = "InvalidData" /\ r.msg = UnknownFormatMsg

IsOsError(r) == r.tag = "Err" /\ r.msg = OsErrorMsg

\* Every payload with its encodings base64(P ++ zlib-compress(B)).
RoundTrips ==
    {[payload |-> B, encoded |-> Encoded(P, B)] : P \in Prefixes, B \in Payloads}

\* C1: for every payload B and prefix P, decoding base64(P ++ zlib(B)) never
\* panics and never reports the stream as bad (it can only fail when the
\* operating system refuses the temporary file or the write), and the bytes
\* it writes to the temporary file are exactly B.
C1_RoundTrip ==
    \A t \in RoundTrips :
        stream = t.encoded =>
            /\ result.tag = "none" => exit = "running"
            /\ result.tag = "Err" => IsOsError(result)
            /\ pc = "write" => output = t.payload
            /\ result.tag = "AtTempFile" =>
                    /\ output = t.payload
                    /\ tmp.exists => tmp.content = t.payload

C1_Witness ==
    /\ stream = Encoded(ZeroPrefix, <<1, 2, 3, 4, 5>>)
    /\ result.tag = "AtTempFile"
    /\ tmp.exists
    /\ tmp.content = <<1, 2, 3, 4, 5>>

\* C2: the replay type is decided by the literal, case-sensitive end of the
\* file name alone: ".scfareplay" gives ForgedAlliance, ".fafreplay" gives
\* FafLegacy, every other name Unknown.
C2_SuffixDecidesType ==
    replayType # "none" =>
        LET n == Len(replayPath)
            scfa == n >= 11 /\ SubSeq(replayPath, n - 10, n)
                        = <<".", "s", "c", "f", "a", "r", "e", "p", "l", "a", "y">>
            faf == n >= 10 /\ SubSeq(replayPath, n - 9, n)
                        = <<".", "f", "a", "f", "r", "e", "p", "l", "a", "y">>
        IN /\ scfa => replayType = "ForgedAlliance"
           /\ faf => replayType = "FafLegacy"
           /\ (~scfa /\ ~faf) => replayType = "Unknown"

C2_Witness ==
    /\ replayType = "Unknown"
    /\ replayPath = <<"r">> \o ScfaExt \o <<"X">>

\* C3: the game is started only after prepare_replay_file returned success;
\* a failed preparation ends the process abnormally before launch_game.
C3_LaunchOnlyAfterSuccess ==
    /\ (Did("spawn") \/ game.state # "none") => result.tag \in {"AtPath", "AtTempFile"}
    /\ result.tag = "Err" => pc \in {"expect", "done"}
    /\ (result.tag = "Err" /\ pc = "done") => exit = "panic"
    /\ pc \in {"launch", "wait", "return"} => result.tag \in {"AtPath", "AtTempFile"}

C3_Witness ==
    /\ result.tag = "Err"
    /\ pc = "done"
    /\ exit = "panic"
    /\ game.state = "none"

\* C4: a temporary file is created before the game is started on its path,
\* exists when the game is started and while it runs, and is deleted only
\* after the game has exited.
C4_TempFileOutlivesGame ==
    /\ game.state # "none" => game.fileExists
    /\ (game.state # "none" /\ result.tag = "AtTempFile") => game.replay = TmpPath
    /\ (game.state = "running" /\ result.tag = "AtTempFile") =>
            tmp.exists /\ tmp.content = output
    /\ Before("tmp_create", "spawn")
    /\ Before("spawn", "game_exit")
    /\ Before("spawn", "tmp_delete")
    /\ Did("spawn") => Before("game_exit", "tmp_delete")
    /\ (pc = "done" /\ exit = "ok" /\ result.tag = "AtTempFile") =>
            /\ Did("tmp_create") /\ Did("spawn") /\ Did("game_exit") /\ Did("tmp_delete")
            /\ ~tmp.exists

C4_Witness ==
    /\ pc = "done"
    /\ exit = "ok"
    /\ result.tag = "AtTempFile"
    /\ game.state = "exited"
    /\ game.replay = TmpPath
    /\ Did("tmp_delete")

\* C5: a run creates at most one temporary file, exactly one (which exists)
\* when prepare_replay_file succeeds with a temporary file, and none exists
\* once prepare_replay_file has failed.
C5_NoTempFileLeak ==
    /\ tmpCount <= 1
    /\ result.tag = "AtTempFile" => tmpCount = 1
    /\ (result.tag = "AtTempFile" /\ pc = "expect") => tmp.exists
    /\ result.tag = "Err" => ~tmp.exists
    /\ (exit = "panic" /\ result.tag = "none") => ~tmp.exists

C5_Witness ==
    /\ result.tag = "Err"
    /\ tmpCount = 1
    /\ Did("tmp_delete")

\* C6: a stream that base64-decodes to fewer than 4 bytes makes the decoder
\* return a CorruptReplay error: no panic, no inflate, no temporary file.
C6_ShortStreamIsCorruptReplay ==
    (/\ Did("split_at")
     /\ Base64Decode(stream).ok
     /\ Len(Base64Decode(stream).bytes) < HeaderLen) =>
        /\ exit # "panic"
        /\ IsCorruptReplay(result)
        /\ ~Did("inflate")
        /\ tmpCount = 0

C8_BadZlibIsCorruptReplay ==
    LET decoded == Base64Decode(stream)
    IN (/\ Did("inflate")
        /\ decoded.ok
        /\ Len(decoded.bytes) >= HeaderLen
        /\ Inflate(SubSeq(decoded.bytes, HeaderLen + 1, Len(decoded.bytes))).status # "ok"
        /\ result.tag # "none"
        /\ ~IsOsError(result)) =>
            IsCorruptReplay(result)

\* The lines of a text: one per line feed, and one more for text after the
\* last line feed.
LineCount(text) ==
    Cardinality({i \in DOMAIN text : text[i] = LF})
        + (IF Len(text) > 0 /\ text[Len(text)] # LF THEN 1 ELSE 0)

\* C9: the parser reads at most two lines; a file without lines fails with
\* "metadata missing", a file with one line with "binary stream missing",
\* both CorruptReplay and both without the decoder being run; the decoder
\* runs only on a file of two or more lines, on its second line.
C9_TwoLinesOrCorrupt ==
    /\ Count("read_line") <= 2
    /\ (LineCount(fileContent) = 0 /\ Did("read_line")) =>
            /\ result = Err("InvalidData", MetadataMissingMsg)
            /\ IsCorruptReplay(result)
    /\ (LineCount(fileContent) = 1 /\ Count("read_line") = 2) =>
            /\ result = Err("InvalidData", StreamMissingMsg)
            /\ IsCorruptReplay(result)
    /\ LineCount(fileContent) < 2 => (~Did("base64_decode") /\ tmpCount = 0)
    /\ Did("base64_decode") =>
            /\ Count("read_line") = 2
            /\ stream = NextLine(NextLine(fileContent).rest).line

C9_Witness ==
    /\ LineCount(fileContent) = 1
    /\ Count("read_line") = 2
    /\ result = Err("InvalidData", StreamMissingMsg)
    /\ pc = "done"

FileSystemEvents == {"open", "read_line", "tmp_create", "write", "tmp_delete"}

\* C10: for a ForgedAlliance name prepare_replay_file returns AtPath with the
\* input path, for an Unknown name it fails with the unknown-format error,
\* and in both cases no file is opened, read, created, written or deleted.
C10_OnlyLegacyTouchesFiles ==
    /\ replayType \in {"ForgedAlliance", "Unknown"} =>
            /\ \A i \in DOMAIN events : events[i] \notin FileSystemEvents
            /\ tmpCount = 0 /\ ~tmp.exists
    /\ replayType = "ForgedAlliance" => result = AtPath(replayPath)
    /\ replayType = "Unknown" =>
            /\ result = Err("InvalidData", UnknownFormatMsg)
            /\ IsUnsupportedFormat(result)

C10_Witness ==
    /\ replayType = "ForgedAlliance"
    /\ result = AtPath(replayPath)
    /\ game.state = "exited"
    /\ game.replay = replayPath

====
